---- MODULE Spec2Model ----
(***************************************************************************)
(* A model of src/server.js: an OpenAI-compatible chat-completions gateway *)
(* in front of a generative-AI backend, with a pool of API keys that is    *)
(* rotated on rate-limit errors.                                           *)
(*                                                                         *)
(* The server runs on the JavaScript event loop: the code between two      *)
(* awaits runs without interruption, so every action below is one such     *)
(* uninterrupted run of one request's handler, from the event that resumes *)
(* it to the next await (or to the end of the handler).                    *)
(***************************************************************************)
EXTENDS Integers, Sequences, FiniteSets, TLC

\* -------------------------------------------------------------- bounds
\* Largest number of keys in the pool.
MaxPool == 2
\* Number of request slots that may be in flight together.
MaxReqs == 2
\* Largest number of chunks the backend streams in a single-request run.
MaxFrags == 2
\* Largest number of chunks the backend streams in a concurrent run.
MaxConcFrags == 1
\* Largest number of rate-limit errors the backend raises in a concurrent run.
MaxRateLimited == 2
\* Largest number of messages of a request in the translation runs.
MaxMsgs == 3
\* Largest explicit maxRetries argument in the direct-call runs.
MaxRetriesArg == 3
\* Largest number of items of a list content in the normaliser runs.
MaxItems == 2

\* -------------------------------------------------------------- JavaScript values
\* undefined, where a string is expected (apiKeyPool[i] out of range).
Undefined == "<undefined>"
\* null, as the finish_reason of a chunk.
Null == "<null>"
\* NaN, the value of x % 0; kept apart from every index.
NaN == 0 - 1

\* a % b on numbers (b >= 0 here): NaN when b is 0 or a is NaN.
JsMod(a, b) == IF a = NaN \/ b = 0 THEN NaN ELSE a % b

\* a + 1 on numbers.
JsInc(a) == IF a = NaN THEN NaN ELSE a + 1

\* arr[i] with JavaScript's 0-based index: undefined out of range.
JsAt(arr, i) == IF i \in 0..(Len(arr) - 1) THEN arr[i + 1] ELSE Undefined

\* s.startsWith(p)
StartsWith(s, p) == Len(s) >= Len(p) /\ SubSeq(s, 1, Len(p)) = p

\* s.includes(sub), case-sensitive
Includes(s, sub) ==
    \E i \in 1..(Len(s) - Len(sub) + 1) : SubSeq(s, i, i + Len(sub) - 1) = sub

\* s.indexOf(c) for a one-character c, 1-based; 0 when absent.
IndexOf(s, c) ==
    IF \E i \in 1..Len(s) : SubSeq(s, i, i) = c
    THEN CHOOSE i \in 1..Len(s) :
            /\ SubSeq(s, i, i) = c
            /\ \A j \in 1..(i - 1) : SubSeq(s, j, j) # c
    ELSE 0

\* -------------------------------------------------------------- content values
\* A message content is a JavaScript value, kept with its type tag t:
\*   [t |-> "string", s |-> ...]      a string
\*   [t |-> "array", items |-> <<...>>]   a list of content items
\*   [t |-> "number", s |-> ...]      a number, s its decimal form
\*   [t |-> "null"], [t |-> "undefined"], [t |-> "object"]
\* A content item is a record with a type field and, by its type, a text or an
\* image_url field ([url |-> ...]); a field may be missing.

\* String(v), also what a template literal `${v}` yields.
JsString(v) ==
    CASE v.t = "string" -> v.s
      [] v.t = "number" -> v.s
      [] v.t = "null" -> "null"
      [] v.t = "undefined" -> "undefined"
      [] v.t = "object" -> "[object Object]"
      [] v.t = "array" ->
            \* Array.prototype.toString: the items joined by ","; an item is an object
            IF Len(v.items) = 0 THEN ""
            ELSE IF Len(v.items) = 1 THEN "[object Object]"
            ELSE IF Len(v.items) = 2 THEN "[object Object],[object Object]"
            ELSE "[object Object],[object Object],[object Object]"

\* The files of the uploads directory: server-relative url -> base64 of the bytes.
StoredFiles ==
    [u \in {"/uploads/1-a.png", "/uploads/2-b.bin"} |->
        IF u = "/uploads/1-a.png" THEN "UE5H" ELSE "QklO"]

\* mime.lookup(path): the type of the extension, or false (here "").
MimeLookup(path) ==
    IF Len(path) >= 4 /\ SubSeq(path, Len(path) - 3, Len(path)) = ".png"
    THEN "image/png" ELSE ""

\* The result of a call that may throw.
Ok(v) == [ok |-> TRUE, val |-> v]
Thrown(msg) == [ok |-> FALSE, error |-> [message |-> msg]]

\* fileToGenerativePart(filePath, mimeType), given the url the path was joined from
fileToGenerativePart(url, mimeType) ==
    IF url \in DOMAIN StoredFiles
    THEN Ok([inlineData |-> [data |-> StoredFiles[url], mimeType |-> mimeType]])
    ELSE Thrown("ENOENT: no such file or directory")

\* The match of /^data:([^;]+);base64,(.+)$/ on "data:" \o rest, semi being the
\* place of the first ";" of rest: <<mime, payload>>, or <<>> for no match.
\* [^;]+ stops at the first ";", and . matches no line terminator.
DataUriParts(rest, semi) ==
    IF /\ semi > 1
       /\ StartsWith(SubSeq(rest, semi, Len(rest)), ";base64,")
       /\ Len(rest) >= semi + 8
       /\ ~Includes(SubSeq(rest, semi + 8, Len(rest)), "\n")
       /\ ~Includes(SubSeq(rest, semi + 8, Len(rest)), "\r")
    THEN <<SubSeq(rest, 1, semi - 1), SubSeq(rest, semi + 8, Len(rest))>>
    ELSE <<>>

\* url.match(/^data:([^;]+);base64,(.+)$/)
DataUriMatch(url) ==
    IF StartsWith(url, "data:")
    THEN DataUriParts(SubSeq(url, 6, Len(url)), IndexOf(SubSeq(url, 6, Len(url)), ";"))
    ELSE <<>>

\* { text: "不支持的内容类型" }, the text given here in English
UnsupportedPart == [text |-> "unsupported content type"]

\* if (matches && matches.length === 3) return { inlineData: ... }
DataPart(matches) ==
    IF Len(matches) = 2
    THEN Ok([inlineData |-> [data |-> matches[2], mimeType |-> matches[1]]])
    ELSE Ok(UnsupportedPart)

\* mime.lookup(filePath) || 'image/jpeg'
MimeOrDefault(looked) == IF looked # "" THEN looked ELSE "image/jpeg"

\* The image_url branch of the callback, for the url of the item.
ImagePart(url) ==
    IF StartsWith(url, "data:") THEN DataPart(DataUriMatch(url))
    ELSE IF StartsWith(url, "/uploads/")
    THEN fileToGenerativePart(url, MimeOrDefault(MimeLookup(url)))
    ELSE Ok(UnsupportedPart)

\* The callback of content.map in processMessageContent: one item to one part.
ItemPart(item) ==
    IF item.type = "text"
    THEN Ok([text |-> IF "text" \in DOMAIN item THEN item.text ELSE Undefined])
    ELSE IF item.type = "image_url"
    THEN IF "image_url" \notin DOMAIN item
         THEN Thrown("Cannot read properties of undefined (reading 'url')")
         ELSE ImagePart(item.image_url.url)
    ELSE Ok(UnsupportedPart)

\* A loop over results that stops at the first exception: that exception, or
\* the values in order.
Collect(rs) ==
    IF \E i \in 1..Len(rs) : ~rs[i].ok
    THEN rs[CHOOSE i \in 1..Len(rs) : ~rs[i].ok /\ \A j \in 1..(i - 1) : rs[j].ok]
    ELSE Ok([i \in 1..Len(rs) |-> rs[i].val])

\* processMessageContent(content): Ok(<<parts>>), or the exception of the first
\* item whose conversion throws.
processMessageContent(content) ==
    IF content.t = "string" THEN Ok(<<[text |-> content.s]>>)
    ELSE IF content.t = "array"
    THEN Collect([i \in 1..Len(content.items) |-> ItemPart(content.items[i])])
    ELSE Ok(<<[text |-> JsString(content)]>>)

\* -------------------------------------------------------------- history translation
\* history.push({ role: geminiRole, parts: processedContent })
TurnOf(geminiRole, processedContent) ==
    IF processedContent.ok
    THEN Ok([role |-> geminiRole, parts |-> processedContent.val])
    ELSE processedContent

\* The role of a turn: assistant -> model, anything else -> user.
GeminiRole(role) == IF role = "assistant" THEN "model" ELSE "user"

\* A turn whose system branch is missing: the content goes to the normaliser.
TurnNoSystemBranch(message) ==
    TurnOf(GeminiRole(message.role),
           IF message.content.t = "string"
           THEN Ok(<<[text |-> message.content.s]>>)
           ELSE processMessageContent(message.content))

\* One turn of the history, from one message of messages.slice(0, -1).
Turn(message) ==
    TurnOf(GeminiRole(message.role),
           IF message.role = "system"
           THEN Ok(<<[text |-> "[SYSTEM]: " \o JsString(message.content)]>>)
           ELSE IF message.content.t = "string"
           THEN Ok(<<[text |-> message.content.s]>>)
           ELSE processMessageContent(message.content))

\* The slice taken at the wrong end: messages.slice(1).
AllButFirst(messages) == SubSeq(messages, 2, Len(messages))

\* messages.slice(0, -1)
AllButLast(messages) == SubSeq(messages, 1, Len(messages) - 1)

\* The loop that builds history: Ok(<<turns>>), or the first exception.
TranslateHistory(messages) ==
    Collect([j \in 1..Len(AllButLast(messages)) |-> Turn(AllButLast(messages)[j])])

\* const lastMessageParts = processMessageContent(lastMessage.content), after
\* the history h was built.
PrepareLast(h, lp) ==
    IF ~lp.ok THEN lp
    ELSE Ok([history |-> h.val, lastMessageParts |-> lp.val])

\* Lines 223-245 for a message list: the history loop, then the last message.
PrepareWith(messages, h) ==
    IF ~h.ok THEN h
    ELSE IF Len(messages) = 0
    THEN Thrown("Cannot read properties of undefined (reading 'content')")
    ELSE PrepareLast(h, processMessageContent(messages[Len(messages)].content))

\* Lines 205-245 of the chat handler: the history and the parts of the last
\* message, or the exception that reaches the outer catch.
Prepare(body) ==
    IF "messages" \notin DOMAIN body
    THEN Thrown("Cannot read properties of undefined (reading 'slice')")
    ELSE PrepareWith(body.messages, TranslateHistory(body.messages))

\* -------------------------------------------------------------- state
VARIABLES
    apiKeyPool,          \* the keys read from the environment at startup
    currentApiKeyIndex,  \* let currentApiKeyIndex: the rotation cursor
    pc,                  \* per request slot: where its handler is suspended
    req,                 \* per request slot: the request being handled
    loc,                 \* per request slot: the locals of the handler and of executeWithRetry
    res,                 \* per request slot: the HTTP response as written so far
    log,                 \* history: per request slot, the attempts of its executeWithRetry call
    outcome,             \* history: per request slot, how its executeWithRetry call ended
    advances,            \* history: the number of switchToNextApiKey calls so far
    backend              \* history: what the backend did so far: the chunks it
                         \* streamed and the rate-limit errors it raised

vars == <<apiKeyPool, currentApiKeyIndex, pc, req, loc, res, log, outcome, advances,
          backend>>

\* The request slots.
Reqs == 1..MaxReqs

\* The i-th key of the environment.
KeyOf(i) == <<"key", i>>

\* apiKeyPool for an environment that lists n keys.
PoolOf(n) == [i \in 1..n |-> KeyOf(i)]

NoReq == [endpoint |-> "none"]
NoLoc == [retryCount |-> 0, maxRetries |-> 0, key |-> Undefined, history |-> <<>>,
          lastMessageParts |-> <<>>, responseId |-> <<>>]
NoRes == [statusCode |-> 200, contentType |-> "", frames |-> <<>>,
          json |-> [kind |-> "none"], ended |-> FALSE]
NoOutcome == [kind |-> "none"]

Init ==
    /\ apiKeyPool \in {PoolOf(n) : n \in 0..MaxPool}
    /\ currentApiKeyIndex = 0
    /\ pc = [r \in Reqs |-> "idle"]
    /\ req = [r \in Reqs |-> NoReq]
    /\ loc = [r \in Reqs |-> NoLoc]
    /\ res = [r \in Reqs |-> NoRes]
    /\ log = [r \in Reqs |-> <<>>]
    /\ outcome = [r \in Reqs |-> NoOutcome]
    /\ advances = 0
    /\ backend = [chunks |-> 0, rateLimited |-> 0]

\* -------------------------------------------------------------- key rotation
\* getCurrentApiKey(), for a cursor value
getCurrentApiKey(index) == JsAt(apiKeyPool, index)

\* The advance without its wrap-around.
NextIndexNoWrap(index) == JsInc(index)

\* The advance wrapping one place too late.
NextIndexWrapLate(index) == JsMod(JsInc(index), Len(apiKeyPool) + 1)

\* (currentApiKeyIndex + 1) % apiKeyPool.length
NextIndex(index) == JsMod(JsInc(index), Len(apiKeyPool))

\* switchToNextApiKey(): the new cursor and the returned key.
switchToNextApiKey(index) ==
    [index |-> NextIndex(index), ret |-> JsAt(apiKeyPool, NextIndex(index))]

\* A default budget of one attempt more than there are keys.
DefaultMaxRetriesPlusOne == Len(apiKeyPool) + 1

\* The default of the maxRetries parameter.
DefaultMaxRetries == Len(apiKeyPool)

\* The classifier without its quota test.
is429ErrorNoQuota(error) ==
    /\ error.message # ""
    /\ \/ Includes(error.message, "429")
       \/ Includes(error.message, "rate limit")
       \/ Includes(error.message, "too many requests")

\* error.message && (includes('429') || includes('quota') || ...)
is429Error(error) ==
    /\ error.message # ""
    /\ \/ Includes(error.message, "429")
       \/ Includes(error.message, "quota")
       \/ Includes(error.message, "rate limit")
       \/ Includes(error.message, "too many requests")

\* The give-up test one attempt late: retryCount >= maxRetries.
GiveUpLate(error, retryCount, maxRetries) ==
    ~is429Error(error) \/ retryCount >= maxRetries

\* if (!is429Error || retryCount >= maxRetries - 1) throw error
GiveUp(error, retryCount, maxRetries) ==
    ~is429Error(error) \/ retryCount >= maxRetries - 1

\* new Error('所有API密钥都已达到速率限制'), the message given here in English
Exhausted == [message |-> "all API keys have reached the rate limit"]

\* -------------------------------------------------------------- response frames
\* res.write(`data: ${JSON.stringify(event)}\n\n`): one frame per write, kept as
\* the event that was serialised. A delta is the set of its <<field, value>> pairs.
StartEvent(id) ==
    [kind |-> "chunk", id |-> id, delta |-> {<<"role", "assistant">>},
     finish_reason |-> Null]
\* A content chunk that takes a fresh id instead of responseId.
ChunkEventFreshId(id, chunkText) ==
    [kind |-> "chunk", id |-> <<id[1], id[2] + 1>>, delta |-> {<<"content", chunkText>>},
     finish_reason |-> Null]
ChunkEvent(id, chunkText) ==
    [kind |-> "chunk", id |-> id, delta |-> {<<"content", chunkText>>},
     finish_reason |-> Null]
FinishEvent(id) ==
    [kind |-> "chunk", id |-> id, delta |-> {}, finish_reason |-> "stop"]
ErrorEvent(error) ==
    [kind |-> "error", message |-> error.message, type |-> "server_error"]
DoneFrame == [kind |-> "done"]

\* `chatcmpl-${Date.now()}`
ResponseId(now) == <<"chatcmpl", now>>

\* The body of the 200 response of the non-streaming branch.
CompletionResponse(now, text) ==
    [kind |-> "completion", id |-> ResponseId(now), content |-> text,
     role |-> "assistant", finish_reason |-> "stop",
     usage |-> [prompt_tokens |-> 0 - 1, completion_tokens |-> 0 - 1,
                total_tokens |-> 0 - 1]]

\* The envelope with the type tag of the stream's error frame.
ErrorEnvelopeStreamType(error) ==
    [kind |-> "error", message |-> error.message, type |-> "server_error"]

\* The body of a 500 response of the chat handler.
ErrorEnvelope(error) ==
    [kind |-> "error", message |-> error.message, type |-> "internal_server_error"]

\* res.status(500).json({ error: ... }) on the response rs
Json500(rs, error) ==
    [rs EXCEPT !.statusCode = 500, !.contentType = "application/json",
               !.json = ErrorEnvelope(error), !.ended = TRUE]

\* res.json(response) on the response rs
Json200(rs, response) ==
    [rs EXCEPT !.contentType = "application/json", !.json = response, !.ended = TRUE]

\* The failure body sent without res.status(code).
JsonFailureNoStatus(rs, code, message) ==
    [rs EXCEPT !.contentType = "application/json",
               !.json = [kind |-> "failure", success |-> FALSE, error |-> message],
               !.ended = TRUE]

\* res.status(code).json({ success: false, error: message }) on the response rs
JsonFailure(rs, code, message) ==
    [rs EXCEPT !.statusCode = code, !.contentType = "application/json",
               !.json = [kind |-> "failure", success |-> FALSE, error |-> message],
               !.ended = TRUE]

\* The stream branch without its Content-Type header.
StreamOpenNoHeader(rs, id) ==
    [rs EXCEPT !.frames = <<StartEvent(id)>>]

\* The headers of the stream branch and the role chunk.
StreamOpen(rs, id) ==
    [rs EXCEPT !.contentType = "text/event-stream", !.frames = <<StartEvent(id)>>]

\* The loop body without its if (chunkText) test.
WriteChunkAlways(frames, id, chunkText) ==
    Append(frames, ChunkEvent(id, chunkText))

\* One turn of the for-await loop on the frames written so far: a chunk with
\* text is written, a chunk without is skipped.
WriteChunk(frames, id, chunkText) ==
    IF chunkText # "" THEN Append(frames, ChunkEvent(id, chunkText)) ELSE frames

\* The end of apiCallFn without its [DONE] frame.
StreamCloseNoDone(rs, id) ==
    [rs EXCEPT !.frames = @ \o <<FinishEvent(id)>>, !.ended = TRUE]

\* The end of apiCallFn in the stream branch: finish chunk, [DONE], res.end().
StreamClose(rs, id) ==
    [rs EXCEPT !.frames = @ \o <<FinishEvent(id), DoneFrame>>, !.ended = TRUE]

\* The catch of the stream branch without its [DONE] frame.
StreamCatchNoDone(rs, error) ==
    [rs EXCEPT !.frames = @ \o <<ErrorEvent(error)>>, !.ended = TRUE]

\* catch (error) of the stream branch: error frame, [DONE], res.end().
StreamCatch(rs, error) ==
    [rs EXCEPT !.frames = @ \o <<ErrorEvent(error), DoneFrame>>, !.ended = TRUE]

\* -------------------------------------------------------------- executeWithRetry
\* The handler of r between two awaits works on a bundle st of what it changes:
\*   st.l  the locals, st.rs  the response, st.lg  the attempts so far,
\*   st.idx  the rotation cursor, st.adv  the number of switchToNextApiKey calls.
Bundle(r) ==
    [l |-> loc[r], rs |-> res[r], lg |-> log[r],
     idx |-> currentApiKeyIndex, adv |-> advances]

\* What a non-streaming backend call resolves with: a result whose
\* response.text() gives text, or one whose response.text() throws error.
TextResult(text) == [text |-> text]
NoTextResult(error) == [textError |-> error]

\* What the caller of executeWithRetry does when the call ends with out: the
\* response after it.
AfterCall(body, rs, out, now) ==
    IF body.endpoint = "chat" /\ body.stream
    THEN IF out.kind = "thrown" THEN StreamCatch(rs, out.error) ELSE rs
    ELSE IF body.endpoint = "chat"
    THEN IF out.kind = "thrown"
         THEN Json500(rs, out.error)
         ELSE IF "text" \in DOMAIN out.val
         THEN Json200(rs, CompletionResponse(now, out.val.text))
         \* result.response.text() throws inside the try: the inner catch
         ELSE Json500(rs, out.val.textError)
    ELSE IF body.endpoint = "generate"
    THEN IF out.kind = "thrown"
         THEN JsonFailure(rs, 500, out.error.message)
         ELSE IF "text" \in DOMAIN out.val
         THEN Json200(rs, [kind |-> "success", success |-> TRUE,
                           response |-> out.val.text])
         ELSE JsonFailure(rs, 500, out.val.textError.message)
    ELSE rs

\* executeWithRetry ends (returns or throws) and its caller runs to its end.
Finish(r, body, st, out, now) ==
    /\ pc' = [pc EXCEPT ![r] = "done"]
    /\ loc' = [loc EXCEPT ![r] = st.l]
    /\ res' = [res EXCEPT ![r] = AfterCall(body, st.rs, out, now)]
    /\ log' = [log EXCEPT ![r] = st.lg]
    /\ outcome' = [outcome EXCEPT ![r] = out]
    /\ currentApiKeyIndex' = st.idx
    /\ advances' = st.adv

\* An attempt whose model was built once, before the loop: a retry keeps the
\* key of the first attempt.
NewAttemptKeepsKey(st, switched) ==
    [key |-> IF st.l.retryCount = 0 THEN getCurrentApiKey(st.idx) ELSE st.l.key,
     switched |-> switched, adv |-> st.adv,
     history |-> st.l.history, input |-> st.l.lastMessageParts,
     frags |-> <<>>, result |-> [kind |-> "pending"]]

\* The record of an attempt that starts: the key its model is bound to, the
\* history and the input its chat session is given, the key the preceding
\* switchToNextApiKey returned (null for a first attempt), the number of
\* switchToNextApiKey calls before it, and what the backend did with it.
NewAttempt(st, switched) ==
    [key |-> getCurrentApiKey(st.idx), switched |-> switched, adv |-> st.adv,
     history |-> st.l.history, input |-> st.l.lastMessageParts,
     frags |-> <<>>, result |-> [kind |-> "pending"]]

\* The loop with the test retryCount <= maxRetries.
AttemptLoopLe(r, body, st, switched, now) ==
    IF st.l.retryCount <= st.l.maxRetries
    THEN /\ pc' = [pc EXCEPT ![r] = "awaitCall"]
         /\ loc' = [loc EXCEPT ![r] = [st.l EXCEPT !.key = getCurrentApiKey(st.idx)]]
         /\ res' = [res EXCEPT ![r] = st.rs]
         /\ log' = [log EXCEPT ![r] = Append(st.lg, NewAttempt(st, switched))]
         /\ outcome' = outcome
         /\ currentApiKeyIndex' = st.idx
         /\ advances' = st.adv
    ELSE Finish(r, body, st, [kind |-> "thrown", error |-> Exhausted], now)

\* The test of the while loop and, when it passes, the start of an attempt: a
\* model bound to the key under the cursor is built and apiCallFn runs to its
\* first await.
Attempt(r, body, st, switched, now) ==
    IF st.l.retryCount < st.l.maxRetries
    THEN /\ pc' = [pc EXCEPT ![r] = "awaitCall"]
         /\ loc' = [loc EXCEPT ![r] = [st.l EXCEPT !.key = getCurrentApiKey(st.idx)]]
         /\ res' = [res EXCEPT ![r] = st.rs]
         /\ log' = [log EXCEPT ![r] = Append(st.lg, NewAttempt(st, switched))]
         /\ outcome' = outcome
         /\ currentApiKeyIndex' = st.idx
         /\ advances' = st.adv
    ELSE Finish(r, body, st, [kind |-> "thrown", error |-> Exhausted], now)

\* The attempts of st with the last one closed by result.
CloseAttempt(st, result) ==
    [st EXCEPT !.lg[Len(st.lg)].result = result]

\* An advance that writes the successor of the cursor read when the attempt
\* started (the place of its key) instead of the successor of the cursor now.
RotateStale(st, sw) ==
    [st EXCEPT !.idx = NextIndex(st.l.key[2] - 1), !.adv = st.adv + 1,
               !.l.retryCount = st.l.retryCount + 1]

\* The switch without retryCount++.
RotateNoCount(st, sw) ==
    [st EXCEPT !.idx = sw.index, !.adv = st.adv + 1]

\* switchToNextApiKey(); retryCount++ on the bundle st, sw being what
\* switchToNextApiKey yields.
Rotate(st, sw) ==
    [st EXCEPT !.idx = sw.index, !.adv = st.adv + 1,
               !.l.retryCount = st.l.retryCount + 1]

\* A catch that switches to the next key before it tests whether to give up.
CatchSwitchFirst(r, body, st, error, now) ==
    IF GiveUp(error, st.l.retryCount, st.l.maxRetries)
    THEN Finish(r, body,
                [st EXCEPT !.idx = switchToNextApiKey(st.idx).index, !.adv = st.adv + 1],
                [kind |-> "thrown", error |-> error], now)
    ELSE Attempt(r, body, Rotate(st, switchToNextApiKey(st.idx)),
                 switchToNextApiKey(st.idx).ret, now)

\* catch (error) of executeWithRetry, then the next turn of the loop.
Catch(r, body, st, error, now) ==
    IF GiveUp(error, st.l.retryCount, st.l.maxRetries)
    THEN Finish(r, body, st, [kind |-> "thrown", error |-> error], now)
    ELSE Attempt(r, body, Rotate(st, switchToNextApiKey(st.idx)),
                 switchToNextApiKey(st.idx).ret, now)

\* -------------------------------------------------------------- handlers
\* The locals of the chat handler at the stream test (line 248).
ChatLocals(prep, now) ==
    [retryCount |-> 0, maxRetries |-> DefaultMaxRetries, key |-> Undefined,
     history |-> prep.val.history, lastMessageParts |-> prep.val.lastMessageParts,
     responseId |-> ResponseId(now)]

\* The chat handler from the stream test on, with its locals l0: the stream
\* branch sets the headers and writes the role chunk, then either branch calls
\* executeWithRetry.
Serve(r, body, l0, now) ==
    Attempt(r, body,
            [Bundle(r) EXCEPT
                !.l = l0,
                !.rs = IF body.stream THEN StreamOpen(res[r], l0.responseId) ELSE res[r]],
            Null, now)

\* The chat handler after lines 205-245 gave prep.
Handle(r, body, prep, now) ==
    IF ~prep.ok
    \* the outer catch: a 500 with the error envelope
    THEN /\ pc' = [pc EXCEPT ![r] = "done"]
         /\ res' = [res EXCEPT ![r] = Json500(res[r], prep.error)]
         /\ UNCHANGED <<loc, log, outcome, currentApiKeyIndex, advances>>
    ELSE Serve(r, body, ChatLocals(prep, now), now)

\* POST /v1/chat/completions arrives at slot r: the handler runs to its first await.
\* Slots are taken in order: which free slot a request takes makes no difference.
Receive(r, body, now) ==
    /\ pc[r] = "idle"
    /\ \A q \in Reqs : q < r => pc[q] # "idle"
    /\ req' = [req EXCEPT ![r] = body]
    /\ UNCHANGED <<apiKeyPool, backend>>
    /\ Handle(r, body, Prepare(body), now)

\* A caller invokes apiKeyManager.executeWithRetry(apiCallFn, maxRetries) with an
\* explicit maxRetries.
CallDirect(r, maxRetries) ==
    /\ pc[r] = "idle"
    /\ \A q \in Reqs : q < r => pc[q] # "idle"
    /\ req' = [req EXCEPT ![r] = [endpoint |-> "direct", maxRetries |-> maxRetries]]
    /\ UNCHANGED <<apiKeyPool, backend>>
    /\ Attempt(r, [endpoint |-> "direct"],
               [Bundle(r) EXCEPT !.l.maxRetries = maxRetries], Null, 0)

\* A caller invokes apiKeyManager.executeWithRetry(apiCallFn) and leaves
\* maxRetries to its default.
CallDefault(r) ==
    /\ pc[r] = "idle"
    /\ \A q \in Reqs : q < r => pc[q] # "idle"
    /\ req' = [req EXCEPT ![r] = [endpoint |-> "direct", defaulted |-> TRUE]]
    /\ UNCHANGED <<apiKeyPool, backend>>
    /\ Attempt(r, [endpoint |-> "direct"],
               [Bundle(r) EXCEPT !.l.maxRetries = DefaultMaxRetries], Null, 0)

\* -------------------------------------------------------------- the generate handler
\* A request to /backends/chat-completions/generate is a record with the files
\* multer stored (req.files, each with its path and mimetype, "" when unknown),
\* the images field of the form (each a record with data and mimeType, either
\* possibly missing), and the prompt field when the form has one.

\* !prompt
NoPrompt(body) == "prompt" \notin DOMAIN body \/ body.prompt = ""

\* file.mimetype || mime.lookup(file.path) || 'image/jpeg'
FileMime(file) ==
    IF file.mimetype # "" THEN file.mimetype ELSE MimeOrDefault(MimeLookup(file.path))

\* image.data && image.mimeType
HasDataAndMime(image) ==
    /\ "data" \in DOMAIN image /\ image.data # ""
    /\ "mimeType" \in DOMAIN image /\ image.mimeType # ""

\* The parts pushed for the images field.
InlineParts(images) ==
    [i \in 1..Len(images) |->
        [inlineData |-> [data |-> images[i].data, mimeType |-> images[i].mimeType]]]

\* The parts pushed for the uploaded files, each read from disk.
FileParts(files) ==
    Collect([i \in 1..Len(files) |-> fileToGenerativePart(files[i].path, FileMime(files[i]))])

\* messageParts after the file parts fp: the prompt, the files, the images.
PartsWith(body, fp) ==
    IF ~fp.ok THEN fp
    ELSE Ok(<<[text |-> body.prompt]>> \o fp.val
            \o InlineParts(SelectSeq(body.images, HasDataAndMime)))

\* The handler once the prompt test has passed, mp being messageParts or the
\* exception of a file that cannot be read.
Generate(r, body, mp) ==
    IF ~mp.ok
    THEN /\ pc' = [pc EXCEPT ![r] = "done"]
         /\ res' = [res EXCEPT ![r] = JsonFailure(res[r], 500, mp.error.message)]
         /\ UNCHANGED <<loc, log, outcome, currentApiKeyIndex, advances>>
    ELSE Attempt(r, body,
                 [Bundle(r) EXCEPT !.l.maxRetries = DefaultMaxRetries,
                                   !.l.lastMessageParts = mp.val],
                 Null, 0)

\* POST /backends/chat-completions/generate arrives at slot r: the handler
\* answers 400 when there is no prompt, and otherwise runs to its first await.
\* The message parts are kept where the chat handler keeps its input.
ReceiveGenerate(r, body) ==
    /\ pc[r] = "idle"
    /\ \A q \in Reqs : q < r => pc[q] # "idle"
    /\ req' = [req EXCEPT ![r] = body]
    /\ UNCHANGED <<apiKeyPool, backend>>
    /\ IF NoPrompt(body)
       THEN /\ pc' = [pc EXCEPT ![r] = "done"]
            /\ res' = [res EXCEPT ![r] =
                          JsonFailure(res[r], 400, "the prompt parameter is required")]
            /\ UNCHANGED <<loc, log, outcome, currentApiKeyIndex, advances>>
       ELSE Generate(r, body, PartsWith(body, FileParts(body.files)))

\* -------------------------------------------------------------- backend events
IsStream(r) == req[r].endpoint = "chat" /\ req[r].stream

\* await chatSession.sendMessageStream(...) resolves with a stream.
SendResolves(r) ==
    /\ pc[r] = "awaitCall"
    /\ IsStream(r)
    /\ pc' = [pc EXCEPT ![r] = "awaitChunk"]
    /\ UNCHANGED <<apiKeyPool, currentApiKeyIndex, req, loc, res, log, outcome, advances,
                   backend>>

\* The stream yields a chunk whose text() is chunkText: one turn of the for-await loop.
Chunk(r, chunkText) ==
    /\ pc[r] = "awaitChunk"
    /\ backend' = [backend EXCEPT !.chunks = @ + 1]
    /\ log' = [log EXCEPT ![r][Len(log[r])].frags = Append(@, chunkText)]
    /\ res' = [res EXCEPT ![r].frames = WriteChunk(@, loc[r].responseId, chunkText)]
    /\ UNCHANGED <<apiKeyPool, currentApiKeyIndex, pc, req, loc, outcome, advances>>

\* The bundle of r when the stream of its attempt ends.
StreamEnded(st) ==
    [CloseAttempt(st, [kind |-> "returned", val |-> Undefined])
        EXCEPT !.rs = StreamClose(st.rs, st.l.responseId)]

\* The stream ends: finish chunk, [DONE], res.end(); apiCallFn returns.
StreamEnd(r) ==
    /\ pc[r] = "awaitChunk"
    /\ UNCHANGED <<apiKeyPool, req, backend>>
    /\ Finish(r, req[r], StreamEnded(Bundle(r)),
              [kind |-> "returned", val |-> Undefined], 0)

\* The awaited backend call of a non-streaming caller resolves with result.
Returns(r, result, now) ==
    /\ pc[r] = "awaitCall"
    /\ ~IsStream(r)
    /\ UNCHANGED <<apiKeyPool, req, backend>>
    /\ Finish(r, req[r], CloseAttempt(Bundle(r), [kind |-> "returned", val |-> result]),
              [kind |-> "returned", val |-> result], now)

\* The backend call of the attempt in flight throws error: before the stream
\* (the awaited send rejects) or in the middle of it.
Throws(r, error) ==
    /\ pc[r] \in {"awaitCall", "awaitChunk"}
    /\ UNCHANGED <<apiKeyPool, req>>
    /\ backend' = [backend EXCEPT !.rateLimited = IF is429Error(error) THEN @ + 1 ELSE @]
    /\ Catch(r, req[r], CloseAttempt(Bundle(r), [kind |-> "thrown", error |-> error]),
             error, 0)

\* -------------------------------------------------------------- inputs
\* Errors of the backend that executeWithRetry classifies as rate-limited.
RateLimitErrors ==
    {[message |-> "[429 Too Many Requests]"], [message |-> "quota exceeded"],
     [message |-> "rate limit reached"], [message |-> "too many requests"]}

\* Errors it classifies as fatal: among them the empty message, and a message
\* that differs from a rate-limit one by case only.
FatalErrors ==
    {[message |-> "API key not valid"], [message |-> ""], [message |-> "Rate Limit"]}

UserHello == [role |-> "user", content |-> [t |-> "string", s |-> "hello"]]

\* The requests of the concurrent runs: one user message, streamed or not.
PlainBodies ==
    {[endpoint |-> "chat", stream |-> st, messages |-> <<UserHello>>] : st \in BOOLEAN}

\* -------------------------------------------------------------- the server
\* Any number of requests in flight, each resumed at its awaits in any order.
Next ==
    \/ \E r \in Reqs, body \in PlainBodies : Receive(r, body, 1)
    \/ \E r \in Reqs : SendResolves(r)
    \/ \E r \in Reqs : backend.chunks < MaxConcFrags /\ Chunk(r, "x")
    \/ \E r \in Reqs : StreamEnd(r)
    \/ \E r \in Reqs : Returns(r, TextResult("ok"), 1)
    \/ \E r \in Reqs : /\ backend.rateLimited < MaxRateLimited
                       /\ Throws(r, [message |-> "[429 Too Many Requests]"])
    \/ \E r \in Reqs : Throws(r, [message |-> "API key not valid"])

Spec == Init /\ [][Next]_vars

\* -------------------------------------------------------------- executeWithRetry alone
\* One caller of executeWithRetry, with an explicit maxRetries or the default;
\* the backend answers each attempt with a value or with any of the errors.
RetryNext ==
    \/ \E maxRetries \in 0..MaxRetriesArg : CallDirect(1, maxRetries)
    \/ CallDefault(1)
    \/ Returns(1, TextResult("ok"), 1)
    \/ \E error \in RateLimitErrors \cup FatalErrors : Throws(1, error)

RetrySpec == Init /\ [][RetryNext]_vars

\* -------------------------------------------------------------- properties: the retry executor
\* The attempts of lg all ended in a rate-limit error.
AllRateLimited(lg) ==
    \A i \in 1..Len(lg) :
        lg[i].result.kind = "thrown" /\ lg[i].result.error \in RateLimitErrors

\* The result of the last attempt of lg.
LastResult(lg) == lg[Len(lg)].result

\* C1: with maxRetries >= 1 and a pool of at least one key, a call whose
\* attempts all raise rate-limit errors makes exactly maxRetries attempts and
\* throws the error of the last one; a call whose first attempt raises a fatal
\* error makes that one attempt and throws its error.
C1_ExactlyMaxRetries ==
    \A r \in Reqs :
        (pc[r] = "done" /\ outcome[r].kind # "none"
            /\ loc[r].maxRetries >= 1 /\ Len(apiKeyPool) >= 1) =>
            /\ AllRateLimited(log[r]) =>
                  /\ Len(log[r]) = loc[r].maxRetries
                  /\ outcome[r] = [kind |-> "thrown", error |-> LastResult(log[r]).error]
            /\ (log[r][1].result.kind = "thrown"
                    /\ log[r][1].result.error \in FatalErrors) =>
                  /\ Len(log[r]) = 1
                  /\ outcome[r] = [kind |-> "thrown", error |-> log[r][1].result.error]

\* A call with maxRetries 3 on a pool of 2 keys has ended after three
\* rate-limit errors.
C1_Witness ==
    \E r \in Reqs :
        /\ pc[r] = "done" /\ loc[r].maxRetries = 3 /\ Len(apiKeyPool) = 2
        /\ AllRateLimited(log[r]) /\ Len(log[r]) = 3
        /\ outcome[r].kind = "thrown"

\* C2: at any time every attempt but the latest ended in a rate-limit error
\* (nothing else is absorbed, and no attempt follows a fatal error); a call that
\* has ended made at most maxRetries attempts, and its outcome is the outcome
\* of its last attempt unchanged: the returned value, or the thrown error,
\* which is a fatal one or the rate-limit error of attempt number maxRetries.
C2_FirstDecisiveOutcome ==
    \A r \in Reqs :
        /\ \A i \in 1..(Len(log[r]) - 1) :
              /\ log[r][i].result.kind = "thrown"
              /\ log[r][i].result.error \in RateLimitErrors
        /\ (pc[r] = "done" /\ outcome[r].kind # "none" /\ loc[r].maxRetries >= 1) =>
              /\ Len(log[r]) \in 1..loc[r].maxRetries
              /\ LastResult(log[r]).kind \in {"returned", "thrown"}
              /\ LastResult(log[r]).kind = "returned" =>
                    outcome[r] = [kind |-> "returned", val |-> LastResult(log[r]).val]
              /\ LastResult(log[r]).kind = "thrown" =>
                    /\ outcome[r] = [kind |-> "thrown", error |-> LastResult(log[r]).error]
                    /\ \/ LastResult(log[r]).error \in FatalErrors
                       \/ Len(log[r]) = loc[r].maxRetries

\* A call has ended with the fatal error of its third attempt, after two
\* rate-limit errors of different kinds.
C2_Witness ==
    \E r \in Reqs :
        /\ pc[r] = "done" /\ Len(log[r]) = 3 /\ loc[r].maxRetries = 3
        /\ log[r][1].result.error.message = "quota exceeded"
        /\ log[r][2].result.error.message = "too many requests"
        /\ outcome[r] = [kind |-> "thrown", error |-> [message |-> "Rate Limit"]]

\* -------------------------------------------------------------- properties: the rotation
\* The keys of the attempts of lg are pairwise different.
DistinctKeys(lg) ==
    \A i, j \in 1..Len(lg) : i # j => lg[i].key # lg[j].key

\* No switchToNextApiKey call of another request fell between the attempts of
\* lg: each attempt started after exactly the call's own advances.
Undisturbed(lg) ==
    \A i \in 1..Len(lg) : lg[i].adv = lg[1].adv + (i - 1)

\* C3 as claimed: with the default budget every call uses each key for at most
\* one attempt, whatever the other requests in flight do.
C3_Original ==
    \A r \in Reqs : req[r].endpoint = "chat" => DistinctKeys(log[r])

\* C3 as amended: with the default budget a call makes at most as many
\* attempts as the pool has keys, and uses each key for at most one of them
\* when no other request advances the cursor between its attempts.
C3_AtMostOncePerKeyUndisturbed ==
    \A r \in Reqs :
        req[r].endpoint = "chat" =>
            /\ Len(log[r]) <= Len(apiKeyPool)
            /\ Undisturbed(log[r]) => DistinctKeys(log[r])

\* With another request in flight, a call has gone through a pool of two keys
\* undisturbed: two attempts, two keys.
C3_Witness ==
    \E r, q \in Reqs :
        /\ r # q /\ Len(log[q]) >= 1 /\ pc[q] # "done"
        /\ Len(apiKeyPool) = 2 /\ Len(log[r]) = 2
        /\ Undisturbed(log[r]) /\ log[r][1].key # log[r][2].key

\* C8: the cursor starts at 0; on a pool of n >= 1 keys every
\* switchToNextApiKey call moves it from i to (i + 1) mod n and returns the key
\* at the new cursor, and nothing else moves it (getCurrentApiKey does not), so
\* that after k calls it is at k mod n.
C8_AdvanceIsSuccessorModN ==
    /\ currentApiKeyIndex = 0
    /\ [](Len(apiKeyPool) >= 1 =>
            currentApiKeyIndex = advances % Len(apiKeyPool))
    /\ [][Len(apiKeyPool) >= 1 =>
            /\ advances' = advances =>
                  currentApiKeyIndex' = currentApiKeyIndex
            /\ advances' # advances =>
                  /\ advances' = advances + 1
                  /\ currentApiKeyIndex' = (currentApiKeyIndex + 1) % Len(apiKeyPool)
                  /\ \E r \in Reqs :
                        /\ Len(log'[r]) = Len(log[r]) + 1
                        /\ log'[r][Len(log'[r])].switched
                              = apiKeyPool[currentApiKeyIndex' + 1]
                        /\ log'[r][Len(log'[r])].key
                              = apiKeyPool[currentApiKeyIndex' + 1]]_vars

\* Two advances on a pool of two keys have brought the cursor back to 0.
C8_Witness ==
    Len(apiKeyPool) = 2 /\ advances = 2 /\ currentApiKeyIndex = 0

\* C9: on a pool of n >= 1 keys the cursor is always one of 0..n-1, and the
\* key of every attempt, of whatever request, is a key of the pool.
C9_CursorInRange ==
    Len(apiKeyPool) >= 1 =>
        /\ currentApiKeyIndex \in 0..(Len(apiKeyPool) - 1)
        /\ \A r \in Reqs : \A i \in 1..Len(log[r]) :
              \E k \in 1..Len(apiKeyPool) : log[r][i].key = apiKeyPool[k]

\* Two requests have both been rate-limited and have both advanced the cursor
\* while the other was in flight.
C9_Witness ==
    \E r, q \in Reqs :
        /\ r # q /\ Len(log[r]) = 2 /\ Len(log[q]) = 2
        /\ log[r][2].adv = 1 /\ log[q][2].adv = 2
        /\ log[q][1].adv = 0

\* -------------------------------------------------------------- one streaming request
\* An item of type image_url without its image_url field.
BrokenImage == [type |-> "image_url"]

\* Streaming requests: a proper one, one with an empty message list, one with
\* no message list, and one whose last message cannot be normalised.
StreamBodies ==
    {[endpoint |-> "chat", stream |-> TRUE, messages |-> <<UserHello>>],
     [endpoint |-> "chat", stream |-> TRUE, messages |-> <<>>],
     [endpoint |-> "chat", stream |-> TRUE],
     [endpoint |-> "chat", stream |-> TRUE,
      messages |-> <<[role |-> "user",
                      content |-> [t |-> "array", items |-> <<BrokenImage>>]]>>]}

\* The errors of the backend in these runs: two rate-limited, two fatal.
StreamErrors ==
    {[message |-> "[429 Too Many Requests]"], [message |-> "quota exceeded"],
     [message |-> "API key not valid"], [message |-> "Rate Limit"]}

\* The backend call in flight settles: the send resolves, the stream ends, or
\* either throws.
StreamSettles ==
    \/ SendResolves(1)
    \/ StreamEnd(1)
    \/ \E error \in StreamErrors : Throws(1, error)

\* One streaming request; the backend streams chunks with or without text.
StreamNext ==
    \/ \E body \in StreamBodies, now \in {1, 2} : Receive(1, body, now)
    \/ \E chunkText \in {"", "Hel", "lo"} :
          backend.chunks < MaxFrags /\ Chunk(1, chunkText)
    \/ StreamSettles

StreamSpec == Init /\ [][StreamNext]_vars

\* The same, where every backend call eventually returns or throws.
StreamFairSpec == StreamSpec /\ WF_vars(StreamSettles)

\* -------------------------------------------------------------- properties: streaming
\* The frames of a stream, written out.
RoleFrame(id) ==
    [kind |-> "chunk", id |-> id, delta |-> {<<"role", "assistant">>},
     finish_reason |-> "<null>"]
DeltaFrame(id, text) ==
    [kind |-> "chunk", id |-> id, delta |-> {<<"content", text>>},
     finish_reason |-> "<null>"]
StopFrame(id) ==
    [kind |-> "chunk", id |-> id, delta |-> {}, finish_reason |-> "stop"]
ErrorFrame(message) ==
    [kind |-> "error", message |-> message, type |-> "server_error"]
Sentinel == [kind |-> "done"]

\* r holds a request with stream = true.
Streaming(r) == req[r].endpoint = "chat" /\ req[r].stream

\* The fragments the backend streamed to the attempts of lg, in order.
AllFrags(lg) ==
    LET F[i \in 0..Len(lg)] == IF i = 0 THEN <<>> ELSE F[i - 1] \o lg[i].frags
    IN  F[Len(lg)]

NonEmptyText(text) == text # ""
IsContentDelta(frame) ==
    frame.kind = "chunk" /\ \E p \in frame.delta : p[1] = "content"
IsErrorFrame(frame) == frame.kind = "error"

\* The texts of the content-delta frames among frames, in order.
DeltaTexts(frames) ==
    LET ds == SelectSeq(frames, IsContentDelta)
    IN  [i \in 1..Len(ds) |-> (CHOOSE p \in ds[i].delta : p[1] = "content")[2]]

\* One content-delta frame per text of texts, in order, all with id.
DeltaFrames(id, texts) == [i \in 1..Len(texts) |-> DeltaFrame(id, texts[i])]

\* C4 as claimed: once an attempt of a streaming request has thrown, whatever
\* the error, the response is closed with one error frame for that error and
\* the sentinel, and no further attempt streams content.
C4_Original ==
    \A r \in Reqs : Streaming(r) =>
        \A i \in 1..Len(log[r]) : log[r][i].result.kind = "thrown" =>
            /\ i = Len(log[r])
            /\ res[r].ended
            /\ Len(SelectSeq(res[r].frames, IsErrorFrame)) = 1
            /\ SubSeq(res[r].frames, Len(res[r].frames) - 1, Len(res[r].frames))
                  = <<ErrorFrame(log[r][i].result.error.message), Sentinel>>

\* C4 as amended: an attempt that throws a fatal error, or that throws at
\* attempt number maxRetries, makes executeWithRetry throw that error; and when
\* executeWithRetry throws, the response is the role chunk, the content deltas
\* of all the text streamed before the throw, one error frame with the message
\* and the type server_error, the sentinel, and it is closed.
C4_ErrorFrameWhenCallThrows ==
    \A r \in Reqs : Streaming(r) =>
        /\ \A i \in 1..Len(log[r]) :
              (/\ log[r][i].result.kind = "thrown"
               /\ \/ log[r][i].result.error \notin RateLimitErrors
                  \/ i = loc[r].maxRetries) =>
                    /\ i = Len(log[r])
                    /\ outcome[r] = [kind |-> "thrown", error |-> log[r][i].result.error]
        /\ outcome[r].kind = "thrown" =>
              /\ pc[r] = "done" /\ res[r].ended
              /\ res[r].frames =
                    <<RoleFrame(res[r].frames[1].id)>>
                    \o DeltaFrames(res[r].frames[1].id,
                                   SelectSeq(AllFrags(log[r]), NonEmptyText))
                    \o <<ErrorFrame(outcome[r].error.message), Sentinel>>

\* A stream was cut by a fatal error in the middle, after text had been sent
\* and after an earlier attempt had been rate-limited.
C4_Witness ==
    \E r \in Reqs :
        /\ Streaming(r) /\ outcome[r].kind = "thrown" /\ Len(log[r]) = 2
        /\ log[r][2].frags = <<"Hel">>
        /\ outcome[r].error.message = "API key not valid"

\* C5: a streaming request whose one backend call streams k fragments, all
\* with text, and ends without error, gets k + 3 frames: the role chunk, one
\* content delta per fragment in order, the chunk with the empty delta and
\* finish_reason stop, the sentinel; all chunks carry one id.
C5_FramesOfCleanStream ==
    \A r \in Reqs :
        (/\ Streaming(r) /\ pc[r] = "done" /\ Len(log[r]) = 1
         /\ log[r][1].result.kind = "returned"
         /\ \A i \in 1..Len(log[r][1].frags) : log[r][1].frags[i] # "") =>
            /\ Len(res[r].frames) = Len(log[r][1].frags) + 3
            /\ res[r].frames =
                  <<RoleFrame(res[r].frames[1].id)>>
                  \o DeltaFrames(res[r].frames[1].id, log[r][1].frags)
                  \o <<StopFrame(res[r].frames[1].id), Sentinel>>

\* The backend streamed "Hel" then "lo" and ended.
C5_Witness ==
    \E r \in Reqs :
        /\ Streaming(r) /\ pc[r] = "done" /\ Len(log[r]) = 1
        /\ log[r][1].result.kind = "returned"
        /\ log[r][1].frags = <<"Hel", "lo">>
        /\ Len(res[r].frames) = 5

\* C6 as claimed: the texts of the content-delta frames are the fragments the
\* backend stream produced, one frame per fragment, in order.
C6_Original ==
    \A r \in Reqs : Streaming(r) =>
        DeltaTexts(res[r].frames) = AllFrags(log[r])

\* C6 as amended: the texts of the content-delta frames are the fragments with
\* text that the backend stream produced, one frame per such fragment, in
\* order; a chunk whose text is empty is not forwarded.
C6_OneDeltaPerTextFragment ==
    \A r \in Reqs : Streaming(r) =>
        DeltaTexts(res[r].frames) = SelectSeq(AllFrags(log[r]), NonEmptyText)

\* The backend streamed a chunk without text and then "lo": one delta.
C6_Witness ==
    \E r \in Reqs :
        /\ Streaming(r) /\ AllFrags(log[r]) = <<"", "lo">>
        /\ DeltaTexts(res[r].frames) = <<"lo">>

\* The request of r got through lines 205-245 of the handler.
Prepared(r) == Len(log[r]) >= 1 \/ outcome[r].kind # "none"

\* C7 as claimed: every streaming request that has been answered got a 200
\* text/event-stream response whose last frame is the sentinel, and is closed.
C7_Original ==
    \A r \in Reqs : (Streaming(r) /\ pc[r] = "done") =>
        /\ res[r].statusCode = 200
        /\ res[r].contentType = "text/event-stream"
        /\ res[r].ended
        /\ Len(res[r].frames) >= 1
        /\ res[r].frames[Len(res[r].frames)] = Sentinel

\* C7 as amended: a streaming request whose message list is there, is not
\* empty and can be normalised is answered with a 200 text/event-stream
\* response whose last frame is the sentinel, and closed; any other streaming
\* request is answered with a 500 and the JSON error envelope; and every
\* streaming request is closed in the end, when each backend call returns or
\* throws.
C7_StreamEndsWithSentinelOrJson500 ==
    /\ [](\A r \in Reqs : (Streaming(r) /\ pc[r] = "done") =>
            /\ res[r].ended
            /\ Prepared(r) =>
                  /\ res[r].statusCode = 200
                  /\ res[r].contentType = "text/event-stream"
                  /\ res[r].frames[Len(res[r].frames)] = Sentinel
            /\ ~Prepared(r) =>
                  /\ res[r].statusCode = 500
                  /\ res[r].contentType = "application/json"
                  /\ res[r].json.kind = "error"
                  /\ res[r].json.type = "internal_server_error"
                  /\ res[r].frames = <<>>)
    /\ [](\A r \in Reqs : (Streaming(r) /\ ~res[r].ended) =>
            res[r].contentType = "text/event-stream")
    /\ \A r \in Reqs : Streaming(r) ~> (pc[r] = "done" /\ res[r].ended)

\* A streaming request was retried and then closed with the sentinel.
C7_Witness ==
    \E r \in Reqs :
        /\ Streaming(r) /\ pc[r] = "done" /\ res[r].ended /\ Len(log[r]) = 2
        /\ res[r].frames[Len(res[r].frames)] = Sentinel

\* -------------------------------------------------------------- translation of requests
\* The messages of the translation runs: the three roles and an unknown one,
\* with a string, a number, or a list of items as content.
XlateMessages ==
    {[role |-> "user", content |-> [t |-> "string", s |-> "hi"]],
     [role |-> "assistant", content |-> [t |-> "string", s |-> "yo"]],
     [role |-> "system", content |-> [t |-> "string", s |-> "be kind"]],
     [role |-> "tool", content |-> [t |-> "number", s |-> "42"]],
     [role |-> "system",
      content |-> [t |-> "array",
                   items |-> <<[type |-> "text", text |-> "a"],
                               [type |-> "text", text |-> "b"]>>]],
     [role |-> "user",
      content |-> [t |-> "array",
                   items |-> <<[type |-> "text", text |-> "look"],
                               [type |-> "image_url",
                                image_url |-> [url |-> "data:image/png;base64,UE5H"]]>>]]}

\* The sequences of at most n elements of S.
SeqsUpTo(S, n) == UNION {[1..k -> S] : k \in 0..n}

\* Requests with any list of at most MaxMsgs of these messages.
XlateBodies ==
    {[endpoint |-> "chat", stream |-> st, messages |-> ms] :
        st \in BOOLEAN, ms \in SeqsUpTo(XlateMessages, MaxMsgs)}

\* One request with any such message list; the backend answers, streams
\* nothing, or is rate-limited.
XlateNext ==
    \/ \E body \in XlateBodies : Receive(1, body, 1)
    \/ SendResolves(1)
    \/ StreamEnd(1)
    \/ Returns(1, TextResult("ok"), 1)
    \/ Throws(1, [message |-> "[429 Too Many Requests]"])

XlateSpec == Init /\ [][XlateNext]_vars

\* -------------------------------------------------------------- properties: translation
\* C10: every attempt of a request with N messages passes the backend a
\* history of exactly N - 1 turns, where turn j has the parts of message j and
\* the role model if message j has role assistant and user otherwise, and
\* passes the parts of message N, and nothing else, as the new input; for
\* N = 1 the history is empty.
C10_HistoryIsAllButLast ==
    \A r \in Reqs : req[r].endpoint = "chat" =>
        \A a \in 1..Len(log[r]) :
            /\ Len(req[r].messages) >= 1
            /\ Len(log[r][a].history) = Len(req[r].messages) - 1
            /\ \A j \in 1..(Len(req[r].messages) - 1) :
                  /\ log[r][a].history[j].role =
                        IF req[r].messages[j].role = "assistant" THEN "model" ELSE "user"
                  /\ log[r][a].history[j].parts = Turn(req[r].messages[j]).val.parts
            /\ log[r][a].input =
                  processMessageContent(
                      req[r].messages[Len(req[r].messages)].content).val

\* A request of three different messages was retried: both attempts got the
\* assistant and the system message as history and the user message as input.
C10_Witness ==
    \E r \in Reqs :
        /\ Len(log[r]) = 2
        /\ Len(req[r].messages) = 3
        /\ req[r].messages[1].role = "assistant"
        /\ req[r].messages[2].role = "system"
        /\ req[r].messages[3].role = "user"
        /\ log[r][2].history =
              <<[role |-> "model", parts |-> <<[text |-> "yo"]>>],
                [role |-> "user", parts |-> <<[text |-> "[SYSTEM]: be kind"]>>]>>
        /\ log[r][2].input = <<[text |-> "hi"]>>

\* The user-role content a system message is claimed to become: one text part,
\* the prefix followed by the content as a string.
SystemParts(content) == <<[text |-> "[SYSTEM]: " \o JsString(content)]>>

\* C11 as claimed: a system message at any place of the list, the last
\* included, reaches the backend as user-role content of one text part with the
\* prefix.
C11_Original ==
    \A r \in Reqs : req[r].endpoint = "chat" =>
        \A a \in 1..Len(log[r]) :
            /\ \A j \in 1..Len(log[r][a].history) :
                  req[r].messages[j].role = "system" =>
                      log[r][a].history[j] =
                          [role |-> "user", parts |-> SystemParts(req[r].messages[j].content)]
            /\ req[r].messages[Len(req[r].messages)].role = "system" =>
                  log[r][a].input =
                      SystemParts(req[r].messages[Len(req[r].messages)].content)

\* C11 as amended: a system message at any place but the last is a user-role
\* turn of one text part, the prefix followed by the content as a string; the
\* last message, system or not, is the input as the normaliser gives it, so a
\* last system message with string content is sent without the prefix.
C11_SystemPrefixInHistory ==
    \A r \in Reqs : req[r].endpoint = "chat" =>
        \A a \in 1..Len(log[r]) :
            /\ \A j \in 1..Len(log[r][a].history) :
                  req[r].messages[j].role = "system" =>
                      /\ log[r][a].history[j].role = "user"
                      /\ Len(log[r][a].history[j].parts) = 1
                      /\ StartsWith(log[r][a].history[j].parts[1].text, "[SYSTEM]: ")
                      /\ log[r][a].history[j].parts =
                            SystemParts(req[r].messages[j].content)
            /\ (/\ req[r].messages[Len(req[r].messages)].role = "system"
                /\ req[r].messages[Len(req[r].messages)].content.t = "string") =>
                  log[r][a].input =
                      <<[text |-> req[r].messages[Len(req[r].messages)].content.s]>>

\* A backend call got two system messages as history, one with a string and one
\* with a list as content, and a third system message as input.
C11_Witness ==
    \E r \in Reqs :
        /\ Len(log[r]) >= 1
        /\ Len(req[r].messages) = 3
        /\ \A j \in 1..3 : req[r].messages[j].role = "system"
        /\ log[r][1].history =
              <<[role |-> "user", parts |-> <<[text |-> "[SYSTEM]: be kind"]>>],
                [role |-> "user",
                 parts |-> <<[text |-> "[SYSTEM]: [object Object],[object Object]"]>>]>>
        /\ log[r][1].input = <<[text |-> "be kind"]>>

\* -------------------------------------------------------------- the normaliser on its inputs
\* "data:<mime><params>;base64,<payload>"
DataUri(mime, params, payload) == "data:" \o mime \o params \o ";base64," \o payload

\* The declared types, parameters and payloads of the data URIs of these runs.
UriMimes == {"image/png", "image/jpeg"}
UriParams == {"", ";charset=utf-8"}
UriPayloads == {"UE5H"}

\* Content items that reference no upload file: texts, images given as data
\* URIs, an image given by a remote URL, an item with another tag, and an
\* image_url item without its image_url field.
NormItems ==
    {[type |-> "text", text |-> "a"], [type |-> "text", text |-> ""],
     [type |-> "audio"],
     [type |-> "image_url", image_url |-> [url |-> "https://example.com/a.png"]],
     BrokenImage}
    \cup {[type |-> "image_url", image_url |-> [url |-> DataUri(m, p, b)]] :
            m \in UriMimes, p \in UriParams, b \in UriPayloads}

\* Contents that reference no upload file: strings, lists of at most MaxItems
\* such items, and values that are neither.
NormContents ==
    {[t |-> "string", s |-> "hi"], [t |-> "string", s |-> ""],
     [t |-> "number", s |-> "42"], [t |-> "null"], [t |-> "undefined"],
     [t |-> "object"]}
    \cup {[t |-> "array", items |-> is] : is \in SeqsUpTo(NormItems, MaxItems)}

\* Requests of one user message with such a content.
NormBodies ==
    {[endpoint |-> "chat", stream |-> FALSE,
      messages |-> <<[role |-> "user", content |-> c]>>] : c \in NormContents}

\* One request; the backend answers or fails.
NormNext ==
    \/ \E body \in NormBodies : Receive(1, body, 1)
    \/ Returns(1, TextResult("ok"), 1)
    \/ \E error \in StreamErrors : Throws(1, error)

NormSpec == Init /\ [][NormNext]_vars

\* -------------------------------------------------------------- properties: the normaliser
\* The content of the one message of the request of r.
ContentOf(r) == req[r].messages[1].content

\* The part claimed for item: the text of a text item, the declared type and
\* the payload of a data URI, the placeholder for any other tag.
ClaimedPart(item, part) ==
    /\ item.type = "text" => part = [text |-> item.text]
    /\ (item.type = "image_url" /\ "image_url" \in DOMAIN item) =>
          \A m \in UriMimes, p \in UriParams, b \in UriPayloads :
              item.image_url.url = DataUri(m, p, b) =>
                  part = [inlineData |-> [data |-> b, mimeType |-> m]]
    /\ item.type \notin {"text", "image_url"} =>
          part = [text |-> "unsupported content type"]

\* C12: for every content that references no upload file the normaliser does
\* not throw, and gives one text part equal to a string content, one part per
\* item of a list in item order (a text part for a text item, an inline image
\* with the declared type and payload for a data URI, the placeholder for an
\* item with another tag), and one text part with the string form of any other
\* value.
C12_Original ==
    \A r \in Reqs : req[r].endpoint = "chat" =>
        /\ Prepared(r)
        /\ ContentOf(r).t = "string" =>
              loc[r].lastMessageParts = <<[text |-> ContentOf(r).s]>>
        /\ ContentOf(r).t = "array" =>
              /\ Len(loc[r].lastMessageParts) = Len(ContentOf(r).items)
              /\ \A i \in 1..Len(ContentOf(r).items) :
                    ClaimedPart(ContentOf(r).items[i], loc[r].lastMessageParts[i])
        /\ ContentOf(r).t = "number" =>
              loc[r].lastMessageParts = <<[text |-> ContentOf(r).s]>>
        /\ ContentOf(r).t = "null" => loc[r].lastMessageParts = <<[text |-> "null"]>>
        /\ ContentOf(r).t = "undefined" =>
              loc[r].lastMessageParts = <<[text |-> "undefined"]>>
        /\ ContentOf(r).t = "object" =>
              loc[r].lastMessageParts = <<[text |-> "[object Object]"]>>

\* -------------------------------------------------------------- the generate endpoint
PngFile == [path |-> "/uploads/1-a.png", mimetype |-> "image/png"]
LostFile == [path |-> "/uploads/9-gone.png", mimetype |-> ""]
PngImage == [data |-> "UE5H", mimeType |-> "image/png"]

\* Forms sent to the endpoint: without a prompt field (bare, or with a file and
\* an image), with an empty prompt, and with a prompt (bare, with a file and two
\* images of which one has no type, with a file that is gone).
GenBodies ==
    {[endpoint |-> "generate", files |-> <<>>, images |-> <<>>],
     [endpoint |-> "generate", files |-> <<PngFile>>, images |-> <<PngImage>>],
     [endpoint |-> "generate", files |-> <<>>, images |-> <<>>, prompt |-> ""],
     [endpoint |-> "generate", files |-> <<>>, images |-> <<>>, prompt |-> "what is this"],
     [endpoint |-> "generate", files |-> <<PngFile>>,
      images |-> <<PngImage, [data |-> "UE5H"]>>, prompt |-> "what is this"],
     [endpoint |-> "generate", files |-> <<LostFile>>, images |-> <<>>,
      prompt |-> "what is this"]}

\* Requests to the generate endpoint in flight together; the backend answers,
\* is rate-limited, or fails.
GenNext ==
    \/ \E r \in Reqs, body \in GenBodies : ReceiveGenerate(r, body)
    \/ \E r \in Reqs : Returns(r, TextResult("a cat"), 0)
    \/ \E r \in Reqs : /\ backend.rateLimited < MaxRateLimited
                       /\ Throws(r, [message |-> "[429 Too Many Requests]"])
    \/ \E r \in Reqs : Throws(r, [message |-> "API key not valid"])

GenSpec == Init /\ [][GenNext]_vars

\* -------------------------------------------------------------- properties: the generate endpoint
\* The form of r has no prompt field.
Promptless(r) == req[r].endpoint = "generate" /\ "prompt" \notin DOMAIN req[r]

\* C13: a generate request without a prompt field is answered 400 with
\* success false in the step that receives it; that step starts no attempt,
\* does not enter executeWithRetry, and leaves the cursor, the count of
\* advances and the backend as they were; and no attempt is ever made for it.
C13_NoPromptIs400WithoutBackend ==
    /\ [](\A r \in Reqs : Promptless(r) =>
            /\ pc[r] = "done" /\ res[r].ended
            /\ res[r].statusCode = 400
            /\ res[r].json.kind = "failure" /\ res[r].json.success = FALSE
            /\ log[r] = <<>> /\ outcome[r].kind = "none"
            /\ loc[r].retryCount = 0)
    /\ [][\A r \in Reqs :
            (req[r].endpoint = "none" /\ req'[r].endpoint = "generate"
                /\ "prompt" \notin DOMAIN req'[r]) =>
                /\ currentApiKeyIndex' = currentApiKeyIndex
                /\ advances' = advances
                /\ backend' = backend
                /\ log' = log /\ outcome' = outcome]_vars

\* A request without prompt, carrying a file and an image, was answered 400
\* while another request had moved the cursor and was still in flight.
C13_Witness ==
    \E r, q \in Reqs :
        /\ r # q /\ Promptless(r) /\ Len(req[r].files) = 1
        /\ res[r].statusCode = 400
        /\ pc[q] = "awaitCall" /\ currentApiKeyIndex = 1 /\ Len(log[q]) = 2

\* -------------------------------------------------------------- properties: exhaustion
\* The error thrown after the loop.
ExhaustedError == [message |-> "all API keys have reached the rate limit"]

\* C14: a call that has ended threw the exhausted error exactly if its
\* maxRetries is 0, which for the default is exactly if the pool is empty; in
\* that case it made no attempt and advanced nothing; with maxRetries >= 1 it
\* ended with what its last attempt returned or threw, a backend value or a
\* backend error.
C14_ExhaustedIffZeroBudget ==
    \A r \in Reqs : (req[r].endpoint = "direct" /\ outcome[r].kind # "none") =>
        /\ outcome[r] = [kind |-> "thrown", error |-> ExhaustedError]
              <=> loc[r].maxRetries = 0
        /\ "defaulted" \in DOMAIN req[r] =>
              (loc[r].maxRetries = 0 <=> Len(apiKeyPool) = 0)
        /\ loc[r].maxRetries = 0 =>
              /\ log[r] = <<>>
              /\ advances = 0 /\ currentApiKeyIndex = 0
        /\ loc[r].maxRetries >= 1 =>
              /\ Len(log[r]) >= 1
              /\ \/ /\ outcome[r].kind = "returned"
                    /\ LastResult(log[r]) = [kind |-> "returned", val |-> outcome[r].val]
                 \/ /\ outcome[r].kind = "thrown"
                    /\ LastResult(log[r]) = [kind |-> "thrown", error |-> outcome[r].error]
                    /\ outcome[r].error \in RateLimitErrors \cup FatalErrors

\* A call with the default budget on an empty pool threw the exhausted error
\* without an attempt.
C14_Witness ==
    \E r \in Reqs :
        /\ req[r].endpoint = "direct" /\ "defaulted" \in DOMAIN req[r]
        /\ Len(apiKeyPool) = 0 /\ pc[r] = "done"
        /\ outcome[r].kind = "thrown"
        /\ outcome[r].error.message = "all API keys have reached the rate limit"
        /\ log[r] = <<>>

\* -------------------------------------------------------------- non-streaming requests
\* Non-streaming requests: a proper one, one with an empty message list, and
\* one with no message list.
ChatBodies ==
    {[endpoint |-> "chat", stream |-> FALSE, messages |-> <<UserHello>>],
     [endpoint |-> "chat", stream |-> FALSE, messages |-> <<>>],
     [endpoint |-> "chat", stream |-> FALSE]}

\* The error of a result whose text cannot be read.
BlockedError == [message |-> "Text not available. Response was blocked due to SAFETY"]

\* The backend call of r in flight settles: it resolves, with a text or with a
\* result that has none, or it throws.
ChatSettles(r) ==
    \/ Returns(r, TextResult("ok"), 1)
    \/ Returns(r, NoTextResult(BlockedError), 1)
    \/ /\ backend.rateLimited < MaxRateLimited
       /\ Throws(r, [message |-> "quota exceeded"])
    \/ Throws(r, [message |-> "API key not valid"])

\* Non-streaming requests in flight together.
ChatNext ==
    \/ \E r \in Reqs, body \in ChatBodies : Receive(r, body, 1)
    \/ \E r \in Reqs : ChatSettles(r)

ChatSpec == Init /\ [][ChatNext]_vars

\* The same, where every backend call eventually returns or throws.
ChatFairSpec == ChatSpec /\ \A r \in Reqs : WF_vars(ChatSettles(r))

\* -------------------------------------------------------------- properties: non-streaming
\* r holds a request with stream = false.
NonStreaming(r) == req[r].endpoint = "chat" /\ ~req[r].stream

\* The completion response with text: finish reason stop, usage counts -1.
CompletionOf(text) ==
    [kind |-> "completion", id |-> <<"chatcmpl", 1>>, content |-> text,
     role |-> "assistant", finish_reason |-> "stop",
     usage |-> [prompt_tokens |-> 0 - 1, completion_tokens |-> 0 - 1,
                total_tokens |-> 0 - 1]]

\* The 500 response with message.
Is500(rs, message) ==
    /\ rs.statusCode = 500
    /\ rs.json = [kind |-> "error", message |-> message, type |-> "internal_server_error"]

\* C15 as claimed: a non-streaming request that has been answered got 200 and
\* the completion response if executeWithRetry returned a result, and otherwise
\* 500 and the error envelope, which carries a rate-limited error only after
\* maxRetries attempts.
C15_Original ==
    \A r \in Reqs : (NonStreaming(r) /\ pc[r] = "done") =>
        /\ res[r].ended
        /\ outcome[r].kind = "returned" =>
              /\ res[r].statusCode = 200
              /\ res[r].json.kind = "completion"
        /\ outcome[r].kind # "returned" =>
              /\ res[r].statusCode = 500
              /\ res[r].json.kind = "error"
              /\ res[r].json.type = "internal_server_error"
        /\ (outcome[r].kind = "thrown" /\ outcome[r].error.message = "quota exceeded") =>
              Len(log[r]) = loc[r].maxRetries

\* C15 as amended: a non-streaming request has no response while its handler
\* runs and exactly one when it has ended, which never changes afterwards: 200
\* and the completion response if executeWithRetry returned a result whose
\* text can be read; 500 and the error envelope with the message of the error
\* if executeWithRetry threw, if the text of the result cannot be read, or if
\* the request could not be translated; a rate-limited error is in the
\* response only after maxRetries attempts; and every request is answered in
\* the end, when each backend call returns or throws.
C15_OneResponse200Or500 ==
    /\ [](\A r \in Reqs : NonStreaming(r) =>
            /\ res[r].ended <=> pc[r] = "done"
            /\ res[r].frames = <<>>
            /\ pc[r] = "done" =>
                  /\ (outcome[r].kind = "returned" /\ "text" \in DOMAIN outcome[r].val) =>
                        /\ res[r].statusCode = 200
                        /\ res[r].json = CompletionOf(outcome[r].val.text)
                  /\ (outcome[r].kind = "returned" /\ "text" \notin DOMAIN outcome[r].val) =>
                        Is500(res[r], outcome[r].val.textError.message)
                  /\ outcome[r].kind = "thrown" =>
                        /\ Is500(res[r], outcome[r].error.message)
                        /\ outcome[r].error.message = "quota exceeded" =>
                              Len(log[r]) = loc[r].maxRetries
                  /\ outcome[r].kind = "none" =>
                        /\ res[r].statusCode = 500
                        /\ res[r].json.kind = "error"
                        /\ res[r].json.type = "internal_server_error"
                        /\ log[r] = <<>>)
    /\ [][\A r \in Reqs : res[r].ended => res'[r] = res[r]]_vars
    /\ \A r \in Reqs : NonStreaming(r) ~> res[r].ended

\* One request got the 500 of a rate-limited error after two attempts on a
\* pool of two keys, another got 200 and the completion response.
C15_Witness ==
    \E r, q \in Reqs :
        /\ NonStreaming(r) /\ pc[r] = "done" /\ Len(apiKeyPool) = 2
        /\ Len(log[r]) = 2 /\ res[r].statusCode = 500
        /\ res[r].json.message = "quota exceeded"
        /\ NonStreaming(q) /\ pc[q] = "done" /\ res[q].statusCode = 200
        /\ res[q].json.content = "ok"

\* -------------------------------------------------------------- calls one after another
\* No call is in flight.
Quiet == \A q \in Reqs : pc[q] \in {"idle", "done"}

\* Callers of executeWithRetry that never overlap: a call starts when none is
\* in flight, at the cursor the calls before it left.
SeqNext ==
    \/ \E r \in Reqs, maxRetries \in 1..MaxRetriesArg : Quiet /\ CallDirect(r, maxRetries)
    \/ \E r \in Reqs : Quiet /\ CallDefault(r)
    \/ \E r \in Reqs : Returns(r, TextResult("ok"), 1)
    \/ \E r \in Reqs : Throws(r, [message |-> "[429 Too Many Requests]"])
    \/ \E r \in Reqs : Throws(r, [message |-> "API key not valid"])

SeqSpec == Init /\ [][SeqNext]_vars

\* -------------------------------------------------------------- properties: the cursor after a call
\* The cursor value under which key lies in the pool.
CursorOf(key) == CHOOSE i \in 0..(Len(apiKeyPool) - 1) : apiKeyPool[i + 1] = key

\* r holds the latest call that made an attempt.
Latest(r) == Len(log[r]) >= 1 /\ \A q \in Reqs : q > r => pc[q] = "idle"

\* C16: on a pool of n >= 1 keys, during and after a call that runs with no
\* other call in flight, the cursor has been advanced exactly (attempts made
\* - 1) times since the call started at cursor i, and is at (i + attempts - 1)
\* mod n: at i after a single attempt, however it ended; and after a call with
\* the default budget was rate-limited n times, at (i + n - 1) mod n, under the
\* key of the last attempt, which for n >= 2 is not i.
C16_AdvancesAreAttemptsMinusOne ==
    Len(apiKeyPool) >= 1 =>
        \A r \in Reqs : Latest(r) =>
            /\ advances - log[r][1].adv = Len(log[r]) - 1
            /\ currentApiKeyIndex =
                  (CursorOf(log[r][1].key) + Len(log[r]) - 1) % Len(apiKeyPool)
            /\ Len(log[r]) = 1 => currentApiKeyIndex = CursorOf(log[r][1].key)
            /\ (/\ pc[r] = "done" /\ "defaulted" \in DOMAIN req[r]
                /\ AllRateLimited(log[r])) =>
                  /\ Len(log[r]) = Len(apiKeyPool)
                  /\ currentApiKeyIndex =
                        (CursorOf(log[r][1].key) + Len(apiKeyPool) - 1) % Len(apiKeyPool)
                  /\ apiKeyPool[currentApiKeyIndex + 1] = log[r][Len(log[r])].key
                  /\ Len(apiKeyPool) >= 2 =>
                        currentApiKeyIndex # CursorOf(log[r][1].key)

\* A second call started at cursor 1 of a pool of two keys, was rate-limited
\* twice and left the cursor at 0.
C16_Witness ==
    \E r \in Reqs :
        /\ Latest(r) /\ pc[r] = "done" /\ "defaulted" \in DOMAIN req[r]
        /\ Len(apiKeyPool) = 2 /\ Len(log[r]) = 2 /\ AllRateLimited(log[r])
        /\ log[r][1].adv = 1 /\ log[r][1].key = apiKeyPool[2]
        /\ currentApiKeyIndex = 0

\* -------------------------------------------------------------- properties: no lost advance
\* The switchToNextApiKey calls made so far by all requests: one before every
\* attempt but the first of each.
SwitchCalls ==
    LET S[k \in 0..MaxReqs] ==
            IF k = 0 THEN 0
            ELSE S[k - 1] + (IF Len(log[k]) >= 1 THEN Len(log[k]) - 1 ELSE 0)
    IN  S[MaxReqs]

\* C17: on a pool of n >= 1 keys, whatever the requests in flight and the
\* order in which they were resumed, after m switchToNextApiKey calls in all
\* the cursor, which started at 0, is at m mod n: every call counted, none
\* lost.
C17_NoLostAdvance ==
    Len(apiKeyPool) >= 1 =>
        /\ advances = SwitchCalls
        /\ currentApiKeyIndex = (0 + SwitchCalls) % Len(apiKeyPool)

\* Two requests that both started under the first of two keys have each been
\* rate-limited and switched; the cursor is back at 0.
C17_Witness ==
    \E r, q \in Reqs :
        /\ r # q /\ Len(apiKeyPool) = 2
        /\ Len(log[r]) = 2 /\ Len(log[q]) = 2
        /\ log[r][1].key = apiKeyPool[1] /\ log[q][1].key = apiKeyPool[1]
        /\ SwitchCalls = 2 /\ currentApiKeyIndex = 0

\* -------------------------------------------------------------- properties: the key of an attempt
\* C18: on a pool of n >= 1 keys and under every interleaving, an attempt that
\* starts is bound to the key under the cursor as that step leaves it; a retry
\* starts in the step of its own request's switchToNextApiKey call and uses
\* the key that call returned; and the key of an attempt, in flight or ended,
\* never changes afterwards, whatever advances follow.
C18_AttemptKeyIsOwnSwitchedKey ==
    /\ [](\A r \in Reqs : \A a \in 2..Len(log[r]) :
            log[r][a].key = log[r][a].switched)
    /\ [](\A r \in Reqs : pc[r] \in {"awaitCall", "awaitChunk"} =>
            loc[r].key = log[r][Len(log[r])].key)
    /\ [][Len(apiKeyPool) >= 1 =>
            \A r \in Reqs :
                /\ Len(log'[r]) >= Len(log[r])
                /\ \A a \in 1..Len(log[r]) : log'[r][a].key = log[r][a].key
                /\ Len(log'[r]) > Len(log[r]) =>
                      /\ Len(log'[r]) = Len(log[r]) + 1
                      /\ log'[r][Len(log'[r])].key = apiKeyPool[currentApiKeyIndex' + 1]
                      /\ Len(log[r]) >= 1 =>
                            /\ advances' = advances + 1
                            /\ log'[r][Len(log'[r])].adv = advances'
                            /\ currentApiKeyIndex' =
                                  (currentApiKeyIndex + 1) % Len(apiKeyPool)
                /\ (Len(log'[r]) = Len(log[r]) /\ pc[r] # "idle") =>
                      loc'[r].key = loc[r].key]_vars

\* One request is in flight on the second of two keys while the cursor is back
\* at 0, because another request switched after it and retried on the first key.
C18_Witness ==
    \E r, q \in Reqs :
        /\ r # q /\ Len(apiKeyPool) = 2 /\ currentApiKeyIndex = 0
        /\ pc[q] = "awaitCall" /\ Len(log[q]) = 2 /\ log[q][2].key = apiKeyPool[2]
        /\ loc[q].key = apiKeyPool[2]
        /\ Len(log[r]) = 2 /\ log[r][2].key = apiKeyPool[1]
        /\ log[r][2].adv = 2

\* -------------------------------------------------------------- calls in flight together
\* The backend call of r in flight returns or throws.
CallSettles(r) ==
    \/ Returns(r, TextResult("ok"), 1)
    \/ Throws(r, [message |-> "[429 Too Many Requests]"])
    \/ Throws(r, [message |-> "API key not valid"])

\* Callers of executeWithRetry in flight together, each with the default
\* budget, and a backend that may be rate-limited without end.
LiveNext ==
    \/ \E r \in Reqs : CallDefault(r)
    \/ \E r \in Reqs : CallSettles(r)

LiveSpec == Init /\ [][LiveNext]_vars

\* The same, where every invocation of the backend eventually returns or throws.
LiveFairSpec == LiveSpec /\ \A r \in Reqs : WF_vars(CallSettles(r))

\* -------------------------------------------------------------- properties: termination
\* C19: under every interleaving with other calls that advance the cursor, a
\* call never makes more than maxRetries attempts, and once started it ends,
\* returning or throwing, when every invocation of the backend returns or
\* throws.
C19_EndsWithinMaxRetries ==
    /\ [](\A r \in Reqs : req[r].endpoint = "direct" =>
            /\ Len(log[r]) <= loc[r].maxRetries
            /\ loc[r].retryCount < loc[r].maxRetries \/ loc[r].maxRetries = 0)
    /\ \A r \in Reqs :
          (req[r].endpoint = "direct") ~>
              (pc[r] = "done" /\ outcome[r].kind \in {"returned", "thrown"})

\* A call ended after its two attempts although another call had switched the
\* cursor between them.
C19_Witness ==
    \E r \in Reqs :
        /\ req[r].endpoint = "direct" /\ pc[r] = "done"
        /\ loc[r].maxRetries = 2 /\ Len(log[r]) = 2
        /\ log[r][2].adv > log[r][1].adv + 1

\* -------------------------------------------------------------- properties: the order of frames
IsRoleChunk(frame) == frame.kind = "chunk" /\ <<"role", "assistant">> \in frame.delta
IsStopChunk(frame) == frame.kind = "chunk" /\ frame.finish_reason = "stop"
IsSentinel(frame) == frame.kind = "done"

\* The number of frames among frames that satisfy Test.
Count(frames, Test(_)) == Len(SelectSeq(frames, Test))

\* C20: in every response whose stream was opened, whatever the retries and
\* the outcomes of the backend: the first frame is the role chunk and no other
\* frame is one; there is at most one stop chunk and at most one error frame,
\* and never both; the sentinel is written at most once, is the last frame,
\* and is there exactly when the connection is ended, which it is when the
\* handler has ended; frames already written stay as they are, and nothing is
\* written once the connection is ended.
C20_FrameOrder ==
    /\ [](\A r \in Reqs : (Streaming(r) /\ res[r].contentType = "text/event-stream") =>
            /\ Len(res[r].frames) >= 1
            /\ IsRoleChunk(res[r].frames[1])
            /\ Count(res[r].frames, IsRoleChunk) = 1
            /\ Count(res[r].frames, IsStopChunk) + Count(res[r].frames, IsErrorFrame) <= 1
            /\ Count(res[r].frames, IsSentinel) <= 1
            /\ res[r].ended <=> Count(res[r].frames, IsSentinel) = 1
            /\ res[r].ended <=> pc[r] = "done"
            /\ res[r].ended =>
                  /\ IsSentinel(res[r].frames[Len(res[r].frames)])
                  /\ Count(res[r].frames, IsStopChunk)
                        + Count(res[r].frames, IsErrorFrame) = 1)
    /\ [][\A r \in Reqs : Streaming(r) =>
            /\ Len(res'[r].frames) >= Len(res[r].frames)
            /\ SubSeq(res'[r].frames, 1, Len(res[r].frames)) = res[r].frames
            /\ res[r].ended => res'[r] = res[r]]_vars

\* A stream was rate-limited after "Hel", retried, and rate-limited again after
\* "lo": role chunk, two deltas, one error frame, the sentinel.
C20_Witness ==
    \E r \in Reqs :
        /\ Streaming(r) /\ res[r].ended /\ Len(log[r]) = 2
        /\ log[r][1].frags = <<"Hel">> /\ log[r][2].frags = <<"lo">>
        /\ Len(res[r].frames) = 5
        /\ res[r].frames[4].kind = "error" /\ res[r].frames[5].kind = "done"

====
